---- MODULE Spec2Model ----
(***************************************************************************)
(* Model of gtsatsis/harvester: the seeder (seed/seed.go), the poll        *)
(* watcher (monitor/redis/watcher.go), the push watcher                    *)
(* (monitor/consul/watcher.go) and the monitor (monitor/monitor.go).       *)
(***************************************************************************)
EXTENDS Integers, Sequences, FiniteSets, TLC

VARIABLES
    \* ---- seeder (seed/seed.go) ----
    sources,     \* cfg.Fields[i].Sources(): field -> (Source -> key)
    getters,     \* Seeder.getters: the sources a Getter is registered for
    idx,         \* position of the per-field loop in cfg.Fields (1-based)
    spc,         \* where Seed is: "loop", "flags", "final", "done"
    seedMap,     \* seedMap of Seed: processed field -> seeded?
    flagInfos,   \* flagInfos of Seed: the recorded flag bindings, in order
    args,        \* os.Args[1:] as read by the flag phase
    parsed,      \* flagSet.Parsed()
    fields,      \* the Field cells: field -> [value, version]
    setLog,      \* every Field.Set call Seed made: field -> sequence of calls
    lookups,     \* every external lookup Seed made: field -> sequence
    result,      \* what Seed returned
    \* ---- poll watcher (monitor/redis/watcher.go) ----
    hashes,      \* Watcher.hashes: per key index, digest of the last value seen
    versions,    \* Watcher.versions: per key index, the local version counter
    wpc,         \* Watcher.monitor: "select", "send" (in ch <- changes), "done"
    batch,       \* the changes getValues is sending
    poll,        \* the last getValues call: its number, outcome and values
    emitted,     \* per key index, the versions of the changes built so far
    \* ---- monitor dispatch task and the shared context ----
    cancelled,   \* ctx.Done() is closed
    dpc,         \* Monitor.monitor: "select", "apply", "done"
    cur,         \* the batch the dispatch task received: the changes still to apply
    \* ---- monitor construction and start (monitor/monitor.go) ----
    ww,          \* Monitor.ww: the registered watchers, in registration order
    mp,          \* Monitor.mp: Source -> (key -> field)
    mpc,         \* "new", "failed" (New erred), "built", "watching", "returned"
    mi,          \* position of Monitor.Monitor's loop in m.ww (1-based)
    mret,        \* what Monitor.Monitor returned
    curBatch,    \* the batch of the current applyChange call, as received
    curLog,      \* the Field.Set calls the current applyChange call made
    \* ---- push watcher (monitor/consul/watcher.go) ----
    ii,          \* Watcher.ii: the watch items
    pp,          \* Watcher.pp: the plans registered so far (item indices)
    plans,       \* per item: "none", "running", "send" (handler in ch <- ...)
    pbatch,      \* per item: the batch its handler is sending
    stops,       \* the plans Stop() was called on
    stopper,     \* the task that stops the plans: "none", "waiting", "done"
    lastData,    \* per item: the data of its last notification
    notifs,      \* number of notifications the plans delivered
    lastPlan     \* the item whose plan delivered the last notification (0: none)

seedVars == <<sources, getters, idx, spc, seedMap, flagInfos, args, parsed, fields,
              setLog, lookups, result>>

pollVars == <<hashes, versions, wpc, batch, poll, emitted>>

monVars == <<cancelled, dpc, cur>>

startVars == <<ww, mp, mpc, mi, mret, curBatch, curLog>>

pushVars == <<ii, pp, plans, pbatch, stops, stopper, lastData, notifs, lastPlan>>

pipeVars == <<startVars, pushVars>>

vars == <<seedVars, pollVars, monVars, pipeVars>>

----------------------------------------------------------------------------
\* Bounds of the model.
MaxSources == 3      \* most sources one field declares
MaxVersion == 1      \* largest version a store getter reports
MaxArgs == 2         \* most command-line arguments
MaxPolls == 3        \* most getValues calls of the poll watcher
MaxIndex == 2        \* largest ModifyIndex the key-value store reports
MaxNotifs == 2       \* most notifications the push watcher's plans deliver
MonPolls == 2        \* most getValues calls when both watchers run

\* config.Source: the closed enumeration of sources.
SourceSeed == "seed"
SourceEnv == "env"
SourceFlag == "flag"
SourceFile == "file"
SourceConsul == "consul"
SourceRedis == "redis"
Source == {SourceSeed, SourceEnv, SourceFlag, SourceFile, SourceConsul, SourceRedis}

\* cfg.Fields, in slice order.
FieldList == <<"f1", "f2">>
Fields == {FieldList[i] : i \in 1..Len(FieldList)}

\* A text value no field type can parse (Field.Set returns an error for it).
Bad == "@bad"


\* The literal of a seed tag: one the field parses, and one it does not.
SeedLiterals == {"DEBUG", Bad}

\* The key a field declares for a source other than seed (env var name, flag
\* name, file path, store key); distinct per field.
KeyOf(f, src) == src \o "_" \o f

FlagNames == {KeyOf(f, SourceFlag) : f \in Fields}
\* A flag name no field declares (defined elsewhere in the process).
OtherFlag == "verbose"

----------------------------------------------------------------------------
\* config.Field (external to the core): a version-gated value cell.
\* Set parses the text, ignores a stale version and otherwise stores both.
NewField == [value |-> "", version |-> 0]

FieldSet(fld, value, version) ==
    IF value = Bad
    THEN [fld |-> fld, err |-> TRUE]
    ELSE IF version # 0 /\ version <= fld.version
    THEN [fld |-> fld, err |-> FALSE]
    ELSE [fld |-> [value |-> value, version |-> version], err |-> FALSE]

----------------------------------------------------------------------------
\* What Seed returns.
NoRet == [kind |-> "none", detail |-> <<>>]
RetNil == [kind |-> "nil", detail |-> <<>>]
RetSetErr(src) == [kind |-> "seterr", detail |-> <<src>>]
RetGetterRequired(src) == [kind |-> "getter required", detail |-> <<src>>]
RetNotSeeded(names) == [kind |-> "not seeded", detail |-> names]

\* What the environment answers to one loop iteration's lookups.
EnvResults ==
    {[ok |-> FALSE, value |-> ""]} \cup {[ok |-> TRUE, value |-> v] : v \in {"INFO", Bad}}
FileResults ==
    {[err |-> TRUE, body |-> ""]} \cup {[err |-> FALSE, body |-> v] : v \in {"FILE", Bad}}
GetResults(good) ==
    {[err |-> TRUE, present |-> FALSE, value |-> "", version |-> 0],
     [err |-> FALSE, present |-> FALSE, value |-> "", version |-> 0]}
    \cup {[err |-> FALSE, present |-> TRUE, value |-> v, version |-> n] :
             v \in {good, Bad}, n \in 0..MaxVersion}

\* One answer per lookup the field's sources can cause.
Outcomes(ss) ==
    [env : IF SourceEnv \in DOMAIN ss THEN EnvResults ELSE {[ok |-> FALSE, value |-> ""]},
     file : IF SourceFile \in DOMAIN ss THEN FileResults ELSE {[err |-> TRUE, body |-> ""]},
     consul : IF SourceConsul \in DOMAIN ss /\ SourceConsul \in getters
              THEN GetResults("100.0")
              ELSE {[err |-> TRUE, present |-> FALSE, value |-> "", version |-> 0]},
     redis : IF SourceRedis \in DOMAIN ss /\ SourceRedis \in getters
             THEN GetResults("200.0")
             ELSE {[err |-> TRUE, present |-> FALSE, value |-> "", version |-> 0]}]

\* DoSet without "seedMap[f] = true".
DoSetUnmarked(st, src, value, version) ==
    LET r == FieldSet(st.fld, value, version)
        call == [src |-> src, value |-> value, version |-> version, err |-> r.err]
    IN  IF r.err
        THEN [st EXCEPT !.log = Append(@, call), !.ret = RetSetErr(src)]
        ELSE [st EXCEPT !.log = Append(@, call), !.fld = r.fld]

\* DoSet with the error only logged: Seed goes on after a failed Set.
DoSetLogOnly(st, src, value, version) ==
    LET r == FieldSet(st.fld, value, version)
        call == [src |-> src, value |-> value, version |-> version, err |-> r.err]
    IN  IF r.err
        THEN [st EXCEPT !.log = Append(@, call)]
        ELSE [st EXCEPT !.log = Append(@, call), !.fld = r.fld, !.seeded = TRUE]

\* f.Set(value, version) inside Seed: an error makes Seed return it; a nil
\* return marks the field seeded.
DoSet(st, src, value, version) ==
    LET r == FieldSet(st.fld, value, version)
        call == [src |-> src, value |-> value, version |-> version, err |-> r.err]
    IN  IF r.err
        THEN [st EXCEPT !.log = Append(@, call), !.ret = RetSetErr(src)]
        ELSE [st EXCEPT !.log = Append(@, call), !.fld = r.fld, !.seeded = TRUE]

Halted(st) == st.ret # NoRet \/ st.cont

SeedStage(st, ss) ==
    IF SourceSeed \in DOMAIN ss
    THEN DoSet(st, SourceSeed, ss[SourceSeed], 0)
    ELSE st

EnvStage(st, ss, o) ==
    IF Halted(st) \/ SourceEnv \notin DOMAIN ss THEN st
    ELSE LET st1 == [st EXCEPT !.lk = Append(@, [src |-> SourceEnv, found |-> o.env.ok, version |-> 0])]
         IN  IF o.env.ok THEN DoSet(st1, SourceEnv, o.env.value, 0) ELSE st1

FlagStage(st, ss, f) ==
    IF Halted(st) \/ SourceFlag \notin DOMAIN ss THEN st
    ELSE [st EXCEPT !.finfos = Append(@, [key |-> ss[SourceFlag], field |-> f])]

FileStage(st, ss, o) ==
    IF Halted(st) \/ SourceFile \notin DOMAIN ss THEN st
    ELSE LET st1 == [st EXCEPT !.lk = Append(@, [src |-> SourceFile, found |-> ~o.file.err, version |-> 0])]
         IN  IF o.file.err THEN st1 ELSE DoSet(st1, SourceFile, o.file.body, 0)

ConsulStage(st, ss, o) ==
    IF Halted(st) \/ SourceConsul \notin DOMAIN ss THEN st
    ELSE IF SourceConsul \notin getters
    THEN [st EXCEPT !.ret = RetGetterRequired(SourceConsul)]
    ELSE LET st1 == [st EXCEPT !.lk = Append(@, [src |-> SourceConsul,
                                                 found |-> o.consul.present,
                                                 version |-> o.consul.version])]
         IN  IF o.consul.err THEN [st1 EXCEPT !.cont = TRUE]
             ELSE IF ~o.consul.present THEN [st1 EXCEPT !.cont = TRUE]
             ELSE DoSet(st1, SourceConsul, o.consul.value, o.consul.version)

RedisStage(st, ss, o) ==
    IF Halted(st) \/ SourceRedis \notin DOMAIN ss THEN st
    ELSE IF SourceRedis \notin getters
    THEN [st EXCEPT !.ret = RetGetterRequired(SourceRedis)]
    ELSE LET st1 == [st EXCEPT !.lk = Append(@, [src |-> SourceRedis,
                                                 found |-> o.redis.present,
                                                 version |-> o.redis.version])]
         IN  IF o.redis.err THEN [st1 EXCEPT !.cont = TRUE]
             ELSE IF ~o.redis.present THEN [st1 EXCEPT !.cont = TRUE]
             ELSE DoSet(st1, SourceRedis, o.redis.value, o.redis.version)

\* SeedIteration with the file block moved below the consul block.
SeedIterationFileAfterConsul(st, f, ss, o) ==
    RedisStage(
      FileStage(
        ConsulStage(
          FlagStage(
            EnvStage(
              SeedStage(st, ss), ss, o), ss, f), ss, o), ss, o), ss, o)

\* The body of the per-field loop, for field f with sources ss.
SeedIteration(st, f, ss, o) ==
    RedisStage(
      ConsulStage(
        FileStage(
          FlagStage(
            EnvStage(
              SeedStage(st, ss), ss, o), ss, f), ss, o), ss, o), ss, o)

\* One iteration of "for _, f := range cfg.Fields".
SeedField ==
    /\ spc = "loop"
    /\ idx <= Len(FieldList)
    /\ LET f == FieldList[idx]
           ss == sources[f]
       IN  \E o \in Outcomes(ss) :
             LET st0 == [fld |-> fields[f], log |-> <<>>, lk |-> <<>>,
                         seeded |-> FALSE, finfos |-> flagInfos,
                         ret |-> NoRet, cont |-> FALSE]
                 st == SeedIteration(st0, f, ss, o)
             IN  /\ fields' = [fields EXCEPT ![f] = st.fld]
                 /\ setLog' = [setLog EXCEPT ![f] = st.log]
                 /\ lookups' = [lookups EXCEPT ![f] = st.lk]
                 /\ seedMap' = [g \in DOMAIN seedMap \cup {f} |->
                                  IF g = f THEN st.seeded ELSE seedMap[g]]
                 /\ flagInfos' = st.finfos
                 /\ IF st.ret # NoRet
                    THEN /\ result' = st.ret
                         /\ spc' = "done"
                         /\ idx' = idx
                    ELSE /\ result' = result
                         /\ idx' = idx + 1
                         /\ spc' = IF idx < Len(FieldList) THEN "loop"
                                   ELSE IF Len(st.finfos) > 0 THEN "flags"
                                   ELSE "final"
    /\ UNCHANGED <<sources, getters, args, parsed>>

----------------------------------------------------------------------------
\* Command-line arguments, by the shape flag.FlagSet.Parse sees:
\*   assign  -name=value
\*   bare    -name          (a string flag with no "=value")
\*   plain   anything not starting with "-"
ArgsFor(names) ==
    {[form |-> "assign", name |-> n, value |-> v] : n \in names, v \in {"WARN", Bad}}
    \cup {[form |-> "assign", name |-> OtherFlag, value |-> "1"]}
    \cup {[form |-> "bare", name |-> n, value |-> ""] : n \in names}
    \cup {[form |-> "plain", name |-> "", value |-> "WARN"]}

ArgSeqs(names) ==
    UNION {[1..n -> ArgsFor(names)] : n \in 0..MaxArgs}

\* flagSet.Parse([]string{arg}): parsing one argument on its own. formal is
\* the set of defined flags, actual maps the flags set so far to their value.
\* Every failure (undefined flag, missing value) returns an error that the
\* caller only logs.
ParseOne(arg, formal, actual) ==
    IF arg.form = "plain" THEN actual
    ELSE IF arg.name \notin formal THEN actual
    ELSE IF arg.form = "bare" THEN actual
    ELSE [n \in DOMAIN actual \cup {arg.name} |->
             IF n = arg.name THEN arg.value ELSE actual[n]]

\* flagSet.Parse(os.Args[1:]) in one call: parsing stops at the first
\* argument that is not a defined flag with its value.
RECURSIVE ParseArgsAtOnce(_, _, _)
ParseArgsAtOnce(as, formal, actual) ==
    IF as = <<>> THEN actual
    ELSE IF Head(as).form = "assign" /\ Head(as).name \in formal
    THEN ParseArgsAtOnce(Tail(as), formal, ParseOne(Head(as), formal, actual))
    ELSE actual

\* "for _, arg := range os.Args[1:]".
RECURSIVE ParseArgs(_, _, _)
ParseArgs(as, formal, actual) ==
    IF as = <<>> THEN actual
    ELSE ParseArgs(Tail(as), formal, ParseOne(Head(as), formal, actual))

\* flagSet.Visit finds the flag among those that were set.
HasFlag(actual, key) == key \in DOMAIN actual

\* "for _, flagInfo := range flagInfos": fs holds the fields, the Set calls,
\* seedMap and the return value so far.
RECURSIVE ApplyFlags(_, _, _)
ApplyFlags(fs, infos, actual) ==
    IF infos = <<>> \/ fs.ret # NoRet THEN fs
    ELSE LET fi == Head(infos)
             f == fi.field
         IN  IF HasFlag(actual, fi.key)
             THEN LET r == FieldSet(fs.fields[f], actual[fi.key], 0)
                      call == [src |-> SourceFlag, value |-> actual[fi.key],
                               version |-> 0, err |-> r.err]
                      logged == [fs EXCEPT !.setLog[f] = Append(@, call)]
                  IN  IF r.err
                      THEN [logged EXCEPT !.ret = RetSetErr(SourceFlag)]
                      ELSE ApplyFlags([logged EXCEPT !.fields[f] = r.fld,
                                                     !.seedMap[f] = TRUE],
                                      Tail(infos), actual)
             ELSE ApplyFlags(fs, Tail(infos), actual)

\* "if len(flagInfos) > 0 { ... }": parse the arguments, apply the flags.
SeedFlags ==
    /\ spc = "flags"
    /\ LET formal == {flagInfos[i].key : i \in 1..Len(flagInfos)}
       IN  \E as \in ArgSeqs(formal) :
             LET actual == ParseArgs(as, formal, <<>>)
                 fs0 == [fields |-> fields, setLog |-> setLog,
                         seedMap |-> seedMap, ret |-> NoRet]
                 fs == ApplyFlags(fs0, flagInfos, actual)
             IN  /\ args' = as
                 /\ parsed' = TRUE
                 /\ fields' = fs.fields
                 /\ setLog' = fs.setLog
                 /\ seedMap' = fs.seedMap
                 /\ IF fs.ret # NoRet
                    THEN result' = fs.ret /\ spc' = "done"
                    ELSE result' = result /\ spc' = "final"
    /\ UNCHANGED <<sources, getters, idx, flagInfos, lookups>>

\* The sequences that list every element of S once (a map is ranged over in
\* no particular order).
Orders(S) ==
    {s \in [1..Cardinality(S) -> S] : \A i, j \in 1..Cardinality(S) : s[i] = s[j] => i = j}

\* "for f, seeded := range seedMap": the aggregated error, or nil.
SeedResult ==
    /\ spc = "final"
    /\ LET unseeded == {f \in DOMAIN seedMap : ~seedMap[f]}
       IN  IF unseeded = {}
           THEN result' = RetNil
           ELSE \E names \in Orders(unseeded) : result' = RetNotSeeded(names)
    /\ spc' = "done"
    /\ UNCHANGED <<sources, getters, idx, seedMap, flagInfos, args, parsed,
                   fields, setLog, lookups>>

----------------------------------------------------------------------------
\* The poll watcher. Keys are the configured keys, in slice order.
Keys == <<"a", "b">>
NKeys == Len(Keys)
Nil == "<nil>"
Values == {"1", "2", "3"}

\* Watcher.hash: hex(md5(value)).
Hash(value) ==
    CASE value = "1" -> "c4ca4238a0b923820dcc509a6f75849b"
      [] value = "2" -> "c81e728d9d4c2f636f067f89cc14862c"
      [] value = "3" -> "eccbc87e4b5ce2fe28308fd9f2a7baf3"
      [] value = "" -> "d41d8cd98f00b204e9800998ecf8427e"

\* change.New(src, key, value, version).
NewChange(src, key, value, version) ==
    [source |-> src, key |-> key, value |-> value, version |-> version]

\* New: one empty hash slot and one zero counter per key.
WatcherNew ==
    /\ hashes = [i \in 1..NKeys |-> ""]
    /\ versions = [i \in 1..NKeys |-> 0]
    /\ wpc = "select"
    /\ batch = <<>>
    /\ poll = [n |-> 0, ok |-> TRUE, values |-> <<>>, prev |-> <<>>]
    /\ emitted = [i \in 1..NKeys |-> <<>>]

\* Diff without "w.hashes[i] = hash".
RECURSIVE DiffNoStore(_, _, _)
DiffNoStore(w, values, i) ==
    IF i > NKeys THEN w
    ELSE IF values[i] = Nil THEN DiffNoStore(w, values, i + 1)
    ELSE IF Hash(values[i]) = w.hashes[i] THEN DiffNoStore(w, values, i + 1)
    ELSE DiffNoStore([hashes |-> w.hashes,
                      versions |-> [w.versions EXCEPT ![i] = @ + 1],
                      changes |-> Append(w.changes,
                                         NewChange(SourceRedis, Keys[i], values[i],
                                                   w.versions[i] + 1))],
                     values, i + 1)

\* Diff building the change before "w.versions[i]++".
RECURSIVE DiffStaleVersion(_, _, _)
DiffStaleVersion(w, values, i) ==
    IF i > NKeys THEN w
    ELSE IF values[i] = Nil THEN DiffStaleVersion(w, values, i + 1)
    ELSE IF Hash(values[i]) = w.hashes[i] THEN DiffStaleVersion(w, values, i + 1)
    ELSE DiffStaleVersion([hashes |-> [w.hashes EXCEPT ![i] = Hash(values[i])],
                           versions |-> [w.versions EXCEPT ![i] = @ + 1],
                           changes |-> Append(w.changes,
                                              NewChange(SourceRedis, Keys[i], values[i],
                                                        w.versions[i]))],
                          values, i + 1)

\* Diff with "break" for "continue" on a nil value.
RECURSIVE DiffStopAtNil(_, _, _)
DiffStopAtNil(w, values, i) ==
    IF i > NKeys THEN w
    ELSE IF values[i] = Nil THEN w
    ELSE IF Hash(values[i]) = w.hashes[i] THEN DiffStopAtNil(w, values, i + 1)
    ELSE DiffStopAtNil([hashes |-> [w.hashes EXCEPT ![i] = Hash(values[i])],
                        versions |-> [w.versions EXCEPT ![i] = @ + 1],
                        changes |-> Append(w.changes,
                                           NewChange(SourceRedis, Keys[i], values[i],
                                                     w.versions[i] + 1))],
                       values, i + 1)

\* "for i, key := range w.keys" of getValues, from index i on: w holds the
\* hashes, the versions and the changes built so far.
RECURSIVE Diff(_, _, _)
Diff(w, values, i) ==
    IF i > NKeys THEN w
    ELSE IF values[i] = Nil THEN Diff(w, values, i + 1)
    ELSE IF Hash(values[i]) = w.hashes[i] THEN Diff(w, values, i + 1)
    ELSE Diff([hashes |-> [w.hashes EXCEPT ![i] = Hash(values[i])],
               versions |-> [w.versions EXCEPT ![i] = @ + 1],
               changes |-> Append(w.changes,
                                  NewChange(SourceRedis, Keys[i], values[i],
                                            w.versions[i] + 1))],
              values, i + 1)

\* A failed MGET that also forgets the stored digests.
AfterFetchErrorReset(w) == [w EXCEPT !.hashes = [i \in 1..NKeys |-> ""]]

\* What a failed MGET leaves of the watcher state: getValues returns before
\* it touches anything.
AfterFetchError(w) == w

\* The versions of the changes for Keys[i] in a batch.
VersionsFor(changes, i) ==
    LET mine == SelectSeq(changes, LAMBDA c : c.key = Keys[i])
    IN  [k \in 1..Len(mine) |-> mine[k].version]

\* The values of the last successful MGET.
LastGood == IF poll.ok THEN poll.values ELSE poll.prev

\* The ticker fires and getValues runs: MGET fails, or returns one value or
\* nil per key. A non-empty batch leaves the task in its channel send.
PollTick ==
    /\ wpc = "select"
    /\ poll.n < MaxPolls
    /\ \/ LET w == AfterFetchError([hashes |-> hashes, versions |-> versions,
                                    changes |-> <<>>])
          IN  /\ poll' = [n |-> poll.n + 1, ok |-> FALSE, values |-> <<>>,
                          prev |-> LastGood]
              /\ hashes' = w.hashes
              /\ versions' = w.versions
              /\ batch' = w.changes
              /\ wpc' = IF w.changes = <<>> THEN "select" ELSE "send"
              /\ UNCHANGED emitted
       \/ \E values \in [1..NKeys -> Values \cup {Nil}] :
            LET w == Diff([hashes |-> hashes, versions |-> versions,
                           changes |-> <<>>], values, 1)
            IN  /\ poll' = [n |-> poll.n + 1, ok |-> TRUE, values |-> values,
                            prev |-> LastGood]
                /\ hashes' = w.hashes
                /\ versions' = w.versions
                /\ batch' = w.changes
                /\ wpc' = IF w.changes = <<>> THEN "select" ELSE "send"
                /\ emitted' = [i \in 1..NKeys |->
                                 emitted[i] \o VersionsFor(w.changes, i)]
    /\ UNCHANGED <<seedVars, monVars>>

\* "case <-ctx.Done(): return" of Watcher.monitor.
WatcherExit ==
    /\ wpc = "select"
    /\ cancelled
    /\ wpc' = "done"
    /\ UNCHANGED <<seedVars, hashes, versions, batch, poll, emitted, monVars>>

----------------------------------------------------------------------------
\* The monitor's dispatch task, reading the unbuffered channel.
MonitorIdle ==
    /\ cancelled = FALSE
    /\ dpc = "select"
    /\ cur = <<>>

\* The field the routing table holds for (src, key), as a set: empty when the
\* source or the key is not in the table.
Route(src, key) ==
    {f \in Fields : /\ src # SourceSeed
                    /\ src \in DOMAIN sources[f]
                    /\ sources[f][src] = key}

\* applyChange: every change of the batch on its own; an unknown source or
\* key and a failed Set are logged and skipped.
RECURSIVE ApplyChanges(_, _)
ApplyChanges(ff, cc) ==
    IF cc = <<>> THEN ff
    ELSE LET c == Head(cc)
             to == Route(c.source, c.key)
         IN  IF to = {} THEN ApplyChanges(ff, Tail(cc))
             ELSE LET f == CHOOSE f \in to : TRUE
                      r == FieldSet(ff[f], c.value, c.version)
                  IN  ApplyChanges([ff EXCEPT ![f] = r.fld], Tail(cc))

\* A receive that does not wait for applyChange to return: the batch is
\* accepted while the previous one is still being applied.
DeliverWhileApplying ==
    /\ wpc = "send"
    /\ dpc \in {"select", "apply"}
    /\ cur' = cur \o batch
    /\ dpc' = "apply"
    /\ batch' = <<>>
    /\ wpc' = "select"
    /\ UNCHANGED <<seedVars, hashes, versions, poll, emitted, cancelled>>

\* "ch <- changes" meets "case c := <-ch": the send completes as the
\* dispatch task receives.
Deliver ==
    /\ wpc = "send"
    /\ dpc = "select"
    /\ cur' = batch
    /\ dpc' = "apply"
    /\ batch' = <<>>
    /\ wpc' = "select"
    /\ UNCHANGED <<seedVars, hashes, versions, poll, emitted, cancelled>>

\* m.applyChange(c).
DispatchApply ==
    /\ dpc = "apply"
    /\ fields' = ApplyChanges(fields, cur)
    /\ cur' = <<>>
    /\ dpc' = "select"
    /\ UNCHANGED <<sources, getters, idx, spc, seedMap, flagInfos, args, parsed,
                   setLog, lookups, result, pollVars, cancelled>>

\* "case <-ctx.Done(): return" of Monitor.monitor.
DispatchExit ==
    /\ dpc = "select"
    /\ cancelled
    /\ dpc' = "done"
    /\ UNCHANGED <<seedVars, pollVars, cancelled, cur>>

\* The caller cancels the shared context.
Cancel ==
    /\ ~cancelled
    /\ cancelled' = TRUE
    /\ UNCHANGED <<seedVars, pollVars, dpc, cur>>

----------------------------------------------------------------------------
\* The monitor: construction (monitor.New, generateMap) and start
\* (Monitor.Monitor).

\* The two Watcher implementations of the repository.
PollW == "redis.Watcher"
PushW == "consul.Watcher"

RetWatchErr(k) == [kind |-> "watch error", detail |-> <<k>>]

\* Some source of the field, other than Seed, is already in the table with
\* the field's key: "if ok { return nil, fmt.Errorf(...already exists...) }".
Clash(table, ss) ==
    \E s \in DOMAIN ss \ {SourceSeed} : s \in DOMAIN table /\ ss[s] \in DOMAIN table[s]

\* "mp[source] = map[string]*config.Field{val: f}" and "mp[source][val] = f"
\* for every source of the field but Seed.
AddField(table, f, ss) ==
    LET added == DOMAIN ss \ {SourceSeed}
    IN  [s \in DOMAIN table \cup added |->
            IF s \notin added THEN table[s]
            ELSE LET old == IF s \in DOMAIN table THEN table[s] ELSE <<>>
                 IN  [k \in DOMAIN old \cup {ss[s]} |-> IF k = ss[s] THEN f ELSE old[k]]]

\* generateMap with the duplicate check left out: the later field replaces
\* the earlier one.
RECURSIVE GenerateMapOverwrite(_, _, _)
GenerateMapOverwrite(cfg, i, table) ==
    IF i > Len(FieldList) THEN [err |-> FALSE, mp |-> table]
    ELSE GenerateMapOverwrite(cfg, i + 1, AddField(table, FieldList[i], cfg[FieldList[i]]))

\* generateMap: "for _, f := range ff", from field i on, with the table built
\* so far. The sources of one field are distinct, so the order a field's
\* sources are ranged over changes neither the table nor whether it fails.
RECURSIVE GenerateMap(_, _, _)
GenerateMap(cfg, i, table) ==
    IF i > Len(FieldList) THEN [err |-> FALSE, mp |-> table]
    ELSE IF Clash(table, cfg[FieldList[i]]) THEN [err |-> TRUE, mp |-> <<>>]
    ELSE GenerateMap(cfg, i + 1, AddField(table, FieldList[i], cfg[FieldList[i]]))

\* monitor.New(cfg, ww...).
MonitorNew ==
    /\ mpc = "new"
    /\ LET r == GenerateMap(sources, 1, <<>>)
       IN  IF ww = <<>> \/ r.err
           THEN mpc' = "failed" /\ mp' = mp
           ELSE mpc' = "built" /\ mp' = r.mp
    /\ UNCHANGED <<seedVars, pollVars, monVars, ww, mi, mret, curBatch, curLog, pushVars>>

\* Monitor.Monitor without "go m.monitor(ctx, ch)".
MonitorGoNoDispatch ==
    /\ mpc = "built"
    /\ mpc' = "watching"
    /\ mi' = 1
    /\ UNCHANGED <<seedVars, pollVars, monVars, ww, mp, mret, curBatch, curLog, pushVars>>

\* Monitor.Monitor up to "go m.monitor(ctx, ch)": the dispatch task runs
\* before any watcher is started. A failed New returned no Monitor to call.
MonitorGo ==
    /\ mpc = "built"
    /\ mpc' = "watching"
    /\ mi' = 1
    /\ dpc' = "select"
    /\ UNCHANGED <<seedVars, pollVars, cancelled, cur, ww, mp, mret, curBatch, curLog,
                   pushVars>>

\* The end of one iteration of "for _, w := range m.ww": after the last
\* watcher Monitor returns nil.
WatchReturned ==
    /\ mi' = mi + 1
    /\ IF mi = Len(ww)
       THEN mpc' = "returned" /\ mret' = RetNil
       ELSE mpc' = mpc /\ mret' = mret

\* w.Watch(ctx, ch) of the poll watcher: ctx and ch are not nil, the polling
\* task is started and nil is returned.
WatchPoll ==
    /\ mpc = "watching"
    /\ mi <= Len(ww)
    /\ ww[mi] = PollW
    /\ wpc' = "select"
    /\ WatchReturned
    /\ UNCHANGED <<seedVars, hashes, versions, batch, poll, emitted, monVars, ww, mp,
                   curBatch, curLog, pushVars>>

----------------------------------------------------------------------------
\* The push watcher (monitor/consul/watcher.go).

\* NewKeyItem, NewKeyItemWithPrefix, NewPrefixItem.
NewKeyItem(key) == [tp |-> "key", key |-> key, prefix |-> ""]
NewKeyItemWithPrefix(key, prefix) == [tp |-> "key", key |-> key, prefix |-> prefix]
NewPrefixItem(key) == [tp |-> "keyprefix", key |-> key, prefix |-> ""]

\* path.Join of two elements: empty elements are ignored.
PathJoin(a, b) == IF a = "" THEN b ELSE IF b = "" THEN a ELSE a \o "/" \o b

\* The key or prefix the item's plan watches: getPlan(tp, key).
WatchedPath(item) ==
    IF item.tp = "key" THEN PathJoin(item.prefix, item.key) ELSE item.key

\* watch.Parse(params) returns an error for an empty key or prefix.
PlanFails(item) == WatchedPath(item) = ""

\* The keys the store holds under a watched path, in the order the store
\* lists them, and the values it holds for a key.
StoreKeys(item) ==
    IF item.tp = "key" THEN <<WatchedPath(item)>>
    ELSE <<PathJoin(item.key, "x"), PathJoin(item.key, "y")>>
StoreValues(k) ==
    CASE k = "cfg/x" -> {"1", "9"}
      [] k = "cfg/y" -> {"2"}
      [] OTHER -> {"7", Bad}

\* api.KVPair, by the fields the handlers read.
KVPair(k, v, n) == [Key |-> k, Value |-> v, ModifyIndex |-> n]
PairsOf(k) == {KVPair(k, v, n) : v \in StoreValues(k), n \in 1..MaxIndex}

\* What a plan hands to its handler: nil, or for a key plan the pair of the
\* key (*api.KVPair), or for a prefix plan the pairs under the prefix
\* (api.KVPairs; any of them may be absent, so the list may be empty).
NilData == [nil |-> TRUE, pairs |-> <<>>]
Data(pairs) == [nil |-> FALSE, pairs |-> pairs]
DataFor(item) ==
    LET kk == StoreKeys(item)
    IN  IF item.tp = "key" THEN {NilData} \cup {Data(<<a>>) : a \in PairsOf(kk[1])}
        ELSE {NilData, Data(<<>>)}
             \cup {Data(<<a>>) : a \in PairsOf(kk[1]) \cup PairsOf(kk[2])}
             \cup {Data(<<a, b>>) : a \in PairsOf(kk[1]), b \in PairsOf(kk[2])}

NoSend == [sent |-> FALSE, cc |-> <<>>]

\* The key handler with the change keyed by the watched path.
KeyHandlerFullPath(item, data) ==
    IF data.nil THEN NoSend
    ELSE LET pair == data.pairs[1]
         IN  [sent |-> TRUE,
              cc |-> <<NewChange(SourceConsul, pair.Key, pair.Value, pair.ModifyIndex)>>]

\* The handler of createKeyPlanWithPrefix: nil is ignored, a pair is sent as
\* one change under the item's key.
KeyHandler(item, data) ==
    IF data.nil THEN NoSend
    ELSE LET pair == data.pairs[1]
         IN  [sent |-> TRUE,
              cc |-> <<NewChange(SourceConsul, item.key, pair.Value, pair.ModifyIndex)>>]

\* The prefix handler sending only the pairs that differ from the last
\* notification's.
PrefixHandlerChangedOnly(item, data, last) ==
    IF data.nil THEN NoSend
    ELSE LET old == {last.pairs[i] : i \in DOMAIN last.pairs}
             new == SelectSeq(data.pairs, LAMBDA pr : pr \notin old)
         IN  [sent |-> TRUE,
              cc |-> [i \in 1..Len(new) |->
                        NewChange(SourceConsul, new[i].Key, new[i].Value,
                                  new[i].ModifyIndex)]]

\* The handler of createKeyPrefixPlan: nil is ignored, the pairs are sent as
\* one batch with one change per pair. (last, the data of the plan's last
\* notification, is not read: the handler keeps no state.)
PrefixHandler(item, data, last) ==
    IF data.nil THEN NoSend
    ELSE LET pp0 == data.pairs
         IN  [sent |-> TRUE,
              cc |-> [i \in 1..Len(pp0) |->
                        NewChange(SourceConsul, pp0[i].Key, pp0[i].Value,
                                  pp0[i].ModifyIndex)]]

Handle(item, data, last) ==
    IF item.tp = "key" THEN KeyHandler(item, data) ELSE PrefixHandler(item, data, last)

\* "for _, i := range w.ii" of Watch, from item i on: the plans registered
\* and started before the first plan that cannot be built.
RECURSIVE StartPlans(_, _, _)
StartPlans(items, i, started) ==
    IF i > Len(items) THEN [err |-> FALSE, pp |-> started]
    ELSE IF PlanFails(items[i]) THEN [err |-> TRUE, pp |-> started]
    ELSE StartPlans(items, i + 1, Append(started, i))

\* w.Watch(ctx, ch) of the push watcher, called by Monitor.Monitor: the task
\* that stops the plans is started only after every plan was built.
WatchPush ==
    /\ mpc = "watching"
    /\ mi <= Len(ww)
    /\ ww[mi] = PushW
    /\ LET r == StartPlans(ii, 1, <<>>)
       IN  /\ pp' = r.pp
           /\ plans' = [p \in DOMAIN plans |->
                          IF \E n \in 1..Len(r.pp) : r.pp[n] = p THEN "running"
                          ELSE plans[p]]
           /\ IF r.err
              THEN /\ stopper' = stopper
                   /\ mpc' = "returned"
                   /\ mret' = RetWatchErr(mi)
                   /\ mi' = mi
              ELSE /\ stopper' = "waiting"
                   /\ WatchReturned
    /\ UNCHANGED <<seedVars, pollVars, monVars, ww, mp, curBatch, curLog, ii, pbatch,
                   stops, lastData, notifs, lastPlan>>

\* Notify held back while the poll watcher is in its send.
NotifyUnlessPollSends(p) ==
    /\ wpc # "send"
    /\ plans[p] = "running"
    /\ p \notin stops
    /\ notifs < MaxNotifs
    /\ \E data \in DataFor(ii[p]) :
         LET h == Handle(ii[p], data, lastData[p])
         IN  /\ lastData' = [lastData EXCEPT ![p] = data]
             /\ IF h.sent
                THEN /\ plans' = [plans EXCEPT ![p] = "send"]
                     /\ pbatch' = [pbatch EXCEPT ![p] = h.cc]
                ELSE UNCHANGED <<plans, pbatch>>
    /\ notifs' = notifs + 1
    /\ lastPlan' = p
    /\ UNCHANGED <<seedVars, pollVars, monVars, startVars, ii, pp, stops, stopper>>

\* A running plan gets a result from the store and calls its handler, which
\* stays in "ch <- ..." when it has something to send.
Notify(p) ==
    /\ plans[p] = "running"
    /\ p \notin stops
    /\ notifs < MaxNotifs
    /\ \E data \in DataFor(ii[p]) :
         LET h == Handle(ii[p], data, lastData[p])
         IN  /\ lastData' = [lastData EXCEPT ![p] = data]
             /\ IF h.sent
                THEN /\ plans' = [plans EXCEPT ![p] = "send"]
                     /\ pbatch' = [pbatch EXCEPT ![p] = h.cc]
                ELSE UNCHANGED <<plans, pbatch>>
    /\ notifs' = notifs + 1
    /\ lastPlan' = p
    /\ UNCHANGED <<seedVars, pollVars, monVars, startVars, ii, pp, stops, stopper>>

\* "<-ctx.Done()" and then pl.Stop() for every plan in w.pp.
StopPlans ==
    /\ stopper = "waiting"
    /\ cancelled
    /\ stops' = {pp[n] : n \in 1..Len(pp)}
    /\ stopper' = "done"
    /\ UNCHANGED <<seedVars, pollVars, monVars, startVars, ii, pp, plans, pbatch,
                   lastData, notifs, lastPlan>>

----------------------------------------------------------------------------
\* The dispatch task of a started monitor, one change at a time.

\* "m.mp[c.Source()]" and "mp[c.Key()]": the field, as a set that is empty
\* when the source or the key is not in the table.
Lookup(table, c) ==
    IF c.source \in DOMAIN table /\ c.key \in DOMAIN table[c.source]
    THEN {table[c.source][c.key]}
    ELSE {}

SetCall(f, c, err) == [field |-> f, value |-> c.value, version |-> c.version, err |-> err]

\* One iteration of applyChange's loop that sets the field without the
\* look-up of the change's key: every field of the source is set.
ApplyOneAnyKey(ff, log, c, table) ==
    LET to == IF c.source \in DOMAIN table
              THEN {table[c.source][k] : k \in DOMAIN table[c.source]} ELSE {}
    IN  IF to = {} THEN [fields |-> ff, log |-> log]
        ELSE LET f == CHOOSE f \in to : TRUE
                 r == FieldSet(ff[f], c.value, c.version)
             IN  [fields |-> [ff EXCEPT ![f] = r.fld], log |-> Append(log, SetCall(f, c, r.err))]

\* One iteration of "for _, c := range cc" in applyChange: an unknown source
\* or key is logged and skipped, the field is Set, a Set error is logged.
ApplyOne(ff, log, c, table) ==
    LET to == Lookup(table, c)
    IN  IF to = {} THEN [fields |-> ff, log |-> log]
        ELSE LET f == CHOOSE f \in to : TRUE
                 r == FieldSet(ff[f], c.value, c.version)
             IN  [fields |-> [ff EXCEPT ![f] = r.fld], log |-> Append(log, SetCall(f, c, r.err))]

\* The poll watcher's send meets the dispatch task's receive; applyChange
\* is called with the batch.
DeliverPoll ==
    /\ Deliver
    /\ curBatch' = batch
    /\ curLog' = <<>>
    /\ UNCHANGED <<ww, mp, mpc, mi, mret, pushVars>>

\* A plan handler's send meets the dispatch task's receive.
DeliverPush(p) ==
    /\ plans[p] = "send"
    /\ dpc = "select"
    /\ cur' = pbatch[p]
    /\ curBatch' = pbatch[p]
    /\ curLog' = <<>>
    /\ dpc' = "apply"
    /\ plans' = [plans EXCEPT ![p] = "running"]
    /\ pbatch' = [pbatch EXCEPT ![p] = <<>>]
    /\ UNCHANGED <<seedVars, pollVars, cancelled, ww, mp, mpc, mi, mret, ii, pp, stops,
                   stopper, lastData, notifs, lastPlan>>

\* applyChange handles the next change of the batch.
DispatchSet ==
    /\ dpc = "apply"
    /\ cur # <<>>
    /\ LET r == ApplyOne(fields, curLog, Head(cur), mp)
       IN  /\ fields' = r.fields
           /\ curLog' = r.log
    /\ cur' = Tail(cur)
    /\ UNCHANGED <<sources, getters, idx, spc, seedMap, flagInfos, args, parsed,
                   setLog, lookups, result, pollVars, cancelled, dpc, ww, mp, mpc, mi,
                   mret, curBatch, pushVars>>

\* The dispatch task returning after one batch.
DispatchDoneThenReturn ==
    /\ dpc = "apply"
    /\ cur = <<>>
    /\ dpc' = "done"
    /\ UNCHANGED <<seedVars, pollVars, cancelled, cur, pipeVars>>

\* applyChange returns; the dispatch task is back in its select.
DispatchDone ==
    /\ dpc = "apply"
    /\ cur = <<>>
    /\ dpc' = "select"
    /\ UNCHANGED <<seedVars, pollVars, cancelled, cur, pipeVars>>

\* No monitor is constructed and no push watcher exists.
NoMonitor ==
    /\ ww = <<>>
    /\ mp = <<>>
    /\ mpc = "new"
    /\ mi = 0
    /\ mret = NoRet
    /\ curBatch = <<>>
    /\ curLog = <<>>
    /\ ii = <<>>
    /\ pp = <<>>
    /\ plans = <<>>
    /\ pbatch = <<>>
    /\ stops = {}
    /\ stopper = "none"
    /\ lastData = <<>>
    /\ notifs = 0
    /\ lastPlan = 0

----------------------------------------------------------------------------
\* The state when Seed is called: any configuration of at most MaxSources
\* sources per field, any set of registered getters, fresh fields.
SourceSets == {D \in SUBSET Source : Cardinality(D) <= MaxSources}

RECURSIVE SumCard(_, _)
SumCard(doms, i) ==
    IF i = 0 THEN 0 ELSE Cardinality(doms[FieldList[i]]) + SumCard(doms, i - 1)
Declared(doms) == SumCard(doms, Len(FieldList))

SeedInit ==
    /\ \E doms \in [Fields -> SourceSets], lit \in [Fields -> SeedLiterals] :
         /\ Declared(doms) <= MaxSources
         /\ sources = [f \in Fields |->
                         [s \in doms[f] |-> IF s = SourceSeed THEN lit[f] ELSE KeyOf(f, s)]]
    /\ getters \in SUBSET ({SourceConsul, SourceRedis}
                             \cap UNION {DOMAIN sources[f] : f \in Fields})
    /\ idx = 1
    /\ spc = "loop"
    /\ seedMap = <<>>
    /\ flagInfos = <<>>
    /\ args = <<>>
    /\ parsed = FALSE
    /\ fields = [f \in Fields |-> NewField]
    /\ setLog = [f \in Fields |-> <<>>]
    /\ lookups = [f \in Fields |-> <<>>]
    /\ result = NoRet
    /\ WatcherNew
    /\ MonitorIdle
    /\ NoMonitor

SeedNext ==
    \/ SeedField /\ UNCHANGED <<pollVars, monVars, pipeVars>>
    \/ SeedFlags /\ UNCHANGED <<pollVars, monVars, pipeVars>>
    \/ SeedResult /\ UNCHANGED <<pollVars, monVars, pipeVars>>

SeedSpec == SeedInit /\ [][SeedNext]_vars


----------------------------------------------------------------------------
\* Helpers of the seeder properties.

\* The sources of the Set calls Seed made on field f, in call order.
SetSources(f) == [i \in 1..Len(setLog[f]) |-> setLog[f][i].src]

LookedUp(f, src) == \E i \in 1..Len(lookups[f]) : lookups[f][i].src = src
Failed(f, src) == \E i \in 1..Len(lookups[f]) : lookups[f][i].src = src /\ ~lookups[f][i].found

\* No Set call of this Seed call returned an error.
NoSetError == \A f \in Fields : \A i \in 1..Len(setLog[f]) : ~setLog[f][i].err

\* The field cell obtained by making the logged Set calls on it, in order.
RECURSIVE Replay(_, _)
Replay(fld, log) ==
    IF log = <<>> THEN fld
    ELSE Replay(FieldSet(fld, Head(log).value, Head(log).version).fld, Tail(log))

\* The order the spec's list gives, and the order Seed makes its calls in.
ListedRank(src) ==
    CASE src = SourceSeed -> 1 [] src = SourceEnv -> 2 [] src = SourceFlag -> 3
      [] src = SourceFile -> 4 [] src = SourceConsul -> 5 [] src = SourceRedis -> 6
CallRank(src) ==
    CASE src = SourceSeed -> 1 [] src = SourceEnv -> 2 [] src = SourceFile -> 3
      [] src = SourceConsul -> 4 [] src = SourceRedis -> 5 [] src = SourceFlag -> 6

\* C1 (as stated): the Set calls a field receives during one Seed call are in
\* the order Seed, Env, Flag, File, Consul, Redis; in particular a File,
\* Consul or Redis Set comes after the Flag Set.
C1_ListedOrder ==
    \A f \in Fields : \A i, j \in 1..Len(setLog[f]) :
        i < j => ListedRank(setLog[f][i].src) < ListedRank(setLog[f][j].src)

\* C1 (amended): the Set calls a field receives during one Seed call are in
\* the order Seed, Env, File, Consul, Redis, Flag, each source at most once:
\* flags are applied after the per-field loop, so the Flag Set comes after
\* every File, Consul and Redis Set, and the last Set a field receives comes
\* from the last source of that order that made one.
C1_CallOrder ==
    \A f \in Fields : \A i, j \in 1..Len(setLog[f]) :
        i < j => CallRank(setLog[f][i].src) < CallRank(setLog[f][j].src)

\* A field was Set from its file and then from its flag.
C1_Witness ==
    \E f \in Fields : \E i, j \in 1..Len(setLog[f]) :
        /\ i < j
        /\ setLog[f][i].src \in {SourceFile, SourceConsul, SourceRedis}
        /\ setLog[f][j].src = SourceFlag
        /\ spc = "done"

\* C2: a non-fatal failure of one source skips only that source for that
\* field: after a failed file read or a failed or empty Consul lookup the
\* later store sources of the field are still looked up, and a Redis value
\* that is found is Set with the version the store reported.
C2_FailureSkipsOnlyThatSource ==
    \A f \in Fields :
        /\ (Failed(f, SourceConsul) /\ SourceRedis \in DOMAIN sources[f]
              /\ SourceRedis \in getters /\ NoSetError)
             => LookedUp(f, SourceRedis)
        /\ (Failed(f, SourceFile) /\ SourceConsul \in DOMAIN sources[f]
              /\ SourceConsul \in getters /\ NoSetError)
             => LookedUp(f, SourceConsul)
        /\ \A i \in 1..Len(lookups[f]) :
              (lookups[f][i].src = SourceRedis /\ lookups[f][i].found) =>
                  \E k \in 1..Len(setLog[f]) :
                      /\ setLog[f][k].src = SourceRedis
                      /\ setLog[f][k].version = lookups[f][i].version

\* C3: whenever a processed field declares a Consul or Redis key whose getter
\* is not registered, Seed returns "getter required" and stops, whatever the
\* field's other sources did (stated for the calls in which no Set failed).
MissingGetter(f) ==
    \E src \in {SourceConsul, SourceRedis} :
        src \in DOMAIN sources[f] /\ src \notin getters

C3_MissingGetterFatal ==
    \A f \in DOMAIN seedMap :
        (MissingGetter(f) /\ NoSetError)
            => /\ spc = "done"
               /\ result.kind = "getter required"
               /\ ~parsed

\* C4: when Seed runs to the end it returns an error exactly if some field
\* received no value; the error names exactly those fields, each once; and
\* every field holds what the Set calls made on it left there.
ReceivedValue(f) == \E i \in 1..Len(setLog[f]) : ~setLog[f][i].err

C4_AggregatedError ==
    (spc = "done" /\ result.kind \in {"nil", "not seeded"}) =>
        /\ result.kind = "not seeded" <=> (\E f \in Fields : ~ReceivedValue(f))
        /\ {result.detail[i] : i \in 1..Len(result.detail)}
              = {f \in Fields : ~ReceivedValue(f)}
        /\ Len(result.detail) = Cardinality({f \in Fields : ~ReceivedValue(f)})
        /\ \A f \in Fields : fields[f] = Replay(NewField, setLog[f])

\* Seed returned the aggregated error although one field was seeded.
C4_Witness ==
    /\ spc = "done"
    /\ result.kind = "not seeded"
    /\ \E f, g \in Fields :
         /\ ReceivedValue(f) /\ fields[f].value # ""
         /\ ~ReceivedValue(g) /\ result.detail = <<g>>

\* C5: a recorded flag binding is Set (version 0) only if the flag was given
\* on the command line as -name=value; it is then Set to the last value
\* given, whatever unrecognized arguments stand before or after it (unless an
\* earlier binding's Set failed and ended Seed); a flag that was not given
\* causes no Set and the field keeps what the earlier sources left.
Given(key) ==
    \E i \in 1..Len(args) : args[i].form = "assign" /\ args[i].name = key
LastGiven(key) ==
    LET i == CHOOSE i \in 1..Len(args) :
                 /\ args[i].form = "assign" /\ args[i].name = key
                 /\ \A j \in (i + 1)..Len(args) :
                       ~(args[j].form = "assign" /\ args[j].name = key)
    IN  args[i].value
FlagCalls(f) == SelectSeq(setLog[f], LAMBDA c : c.src = SourceFlag)
LoopCalls(f) == SelectSeq(setLog[f], LAMBDA c : c.src # SourceFlag)

C5_FlagOnlyIfPresent ==
    \A n \in 1..Len(flagInfos) :
        LET key == flagInfos[n].key
            f == flagInfos[n].field
            reached == \A m \in 1..(n - 1) :
                          \A i \in 1..Len(setLog[flagInfos[m].field]) :
                              ~setLog[flagInfos[m].field][i].err
        IN  /\ ~parsed => FlagCalls(f) = <<>>
            /\ (parsed /\ ~Given(key)) =>
                  /\ FlagCalls(f) = <<>>
                  /\ fields[f] = Replay(NewField, LoopCalls(f))
            /\ (parsed /\ Given(key) /\ reached) =>
                  /\ Len(FlagCalls(f)) = 1
                  /\ FlagCalls(f)[1].value = LastGiven(key)
                  /\ FlagCalls(f)[1].version = 0

\* A flag given after an unrecognized argument was applied; and the spec's
\* scenario: Seed "DEBUG", Env "INFO", Flag declared but not given.
C5_Witness ==
    /\ parsed
    /\ Len(args) = 2
    /\ args[1].name = OtherFlag
    /\ \E n \in 1..Len(flagInfos) :
         /\ args[2].form = "assign" /\ args[2].name = flagInfos[n].key
         /\ fields[flagInfos[n].field].value = args[2].value

C5_Scenario ==
    /\ parsed /\ spc = "done"
    /\ \E f \in Fields :
         /\ DOMAIN sources[f] = {SourceSeed, SourceEnv, SourceFlag}
         /\ sources[f][SourceSeed] = "DEBUG"
         /\ ~Given(sources[f][SourceFlag])
         /\ SetSources(f) = <<SourceSeed, SourceEnv>>
         /\ fields[f].value = "INFO"
         /\ \E i \in 1..Len(args) : args[i].name = OtherFlag


----------------------------------------------------------------------------
\* The poll watcher and the dispatch task running after seeding: field f1 is
\* bound to redis key "a", field f2 to redis key "b".
PollInit ==
    /\ sources = [f \in Fields |->
                    [s \in {SourceRedis} |-> IF f = "f1" THEN "a" ELSE "b"]]
    /\ getters = {SourceRedis}
    /\ idx = Len(FieldList) + 1
    /\ spc = "done"
    /\ seedMap = [f \in Fields |-> FALSE]
    /\ flagInfos = <<>>
    /\ args = <<>>
    /\ parsed = FALSE
    /\ fields = [f \in Fields |-> NewField]
    /\ setLog = [f \in Fields |-> <<>>]
    /\ lookups = [f \in Fields |-> <<>>]
    /\ result = RetNotSeeded(FieldList)
    /\ WatcherNew
    /\ MonitorIdle
    /\ NoMonitor

PollNext ==
    \/ PollTick /\ UNCHANGED pipeVars
    \/ WatcherExit /\ UNCHANGED pipeVars
    \/ Deliver /\ UNCHANGED pipeVars
    \/ DispatchApply /\ UNCHANGED pipeVars
    \/ DispatchExit /\ UNCHANGED pipeVars
    \/ Cancel /\ UNCHANGED pipeVars

PollSpec == PollInit /\ [][PollNext]_vars


----------------------------------------------------------------------------
\* Constructing and starting a monitor: any configuration whose fields
\* declare Seed, Consul and Redis sources over two keys, any registration of
\* the two watchers, fields as Seed left them.
RouteKeys == {"a", "x"}
RouteConfigs ==
    UNION {[D -> RouteKeys] : D \in SUBSET {SourceSeed, SourceConsul, SourceRedis}}

WatcherLists == {<<>>, <<PollW>>, <<PushW>>, <<PollW, PushW>>, <<PushW, PollW>>}

ItemLists ==
    {<<NewKeyItemWithPrefix("x", "ns")>>,
     <<NewPrefixItem("cfg")>>,
     <<NewKeyItemWithPrefix("x", "ns"), NewPrefixItem("cfg")>>,
     <<NewPrefixItem("cfg"), NewKeyItem("")>>}

\* Seed has returned; the watchers are constructed, nothing is started.
Unstarted(cfg, watchers, items) ==
    /\ sources = cfg
    /\ getters = {}
    /\ idx = Len(FieldList) + 1
    /\ spc = "done"
    /\ seedMap = [f \in Fields |-> FALSE]
    /\ flagInfos = <<>>
    /\ args = <<>>
    /\ parsed = FALSE
    /\ fields = [f \in Fields |-> NewField]
    /\ setLog = [f \in Fields |-> <<>>]
    /\ lookups = [f \in Fields |-> <<>>]
    /\ result = RetNotSeeded(FieldList)
    /\ hashes = [i \in 1..NKeys |-> ""]
    /\ versions = [i \in 1..NKeys |-> 0]
    /\ wpc = "new"
    /\ batch = <<>>
    /\ poll = [n |-> 0, ok |-> TRUE, values |-> <<>>, prev |-> <<>>]
    /\ emitted = [i \in 1..NKeys |-> <<>>]
    /\ cancelled = FALSE
    /\ dpc = "idle"
    /\ cur = <<>>
    /\ ww = watchers
    /\ mp = <<>>
    /\ mpc = "new"
    /\ mi = 0
    /\ mret = NoRet
    /\ curBatch = <<>>
    /\ curLog = <<>>
    /\ ii = items
    /\ pp = <<>>
    /\ plans = [p \in 1..Len(items) |-> "none"]
    /\ pbatch = [p \in 1..Len(items) |-> <<>>]
    /\ stops = {}
    /\ stopper = "none"
    /\ lastData = [p \in 1..Len(items) |-> NilData]
    /\ notifs = 0
    /\ lastPlan = 0

NewInit ==
    \E cfg \in [Fields -> RouteConfigs], watchers \in WatcherLists, items \in ItemLists :
        Unstarted(cfg, watchers, items)

NewNext ==
    \/ MonitorNew
    \/ MonitorGo
    \/ WatchPoll
    \/ WatchPush

NewSpec == NewInit /\ [][NewNext]_vars

----------------------------------------------------------------------------
\* The monitor with the push watcher registered. Field f1 is bound to redis
\* key "a" and to consul key "x", field f2 to consul key "cfg/y"; redis key
\* "b" and consul key "cfg/x" are watched but bound to no field.
MonConfig ==
    [f \in Fields |->
        IF f = "f1" THEN [s \in {SourceRedis, SourceConsul} |->
                             IF s = SourceRedis THEN "a" ELSE "x"]
        ELSE [s \in {SourceConsul} |-> "cfg/y"]]

\* Both fields bound to redis keys only: no consul key is in the table.
RedisOnlyConfig ==
    [f \in Fields |-> [s \in {SourceRedis} |-> IF f = "f1" THEN "a" ELSE "b"]]

PushInit ==
    \E cfg \in {MonConfig, RedisOnlyConfig}, items \in ItemLists :
        Unstarted(cfg, <<PushW>>, items)

PushNext ==
    \/ MonitorNew
    \/ MonitorGo
    \/ WatchPush
    \/ \E p \in DOMAIN plans : Notify(p)
    \/ StopPlans
    \/ \E p \in DOMAIN plans : DeliverPush(p)
    \/ DispatchSet
    \/ DispatchDone
    \/ DispatchExit /\ UNCHANGED pipeVars
    \/ Cancel /\ UNCHANGED pipeVars

PushSpec == PushInit /\ [][PushNext]_vars

----------------------------------------------------------------------------
\* The monitor with both watchers registered, in either order, over a store
\* content that changes little: redis key "a" goes from "1" to "2" while "b"
\* stays "3", every consul pair has ModifyIndex 1, and the poll watcher
\* polls at most MonPolls times.
MonPolled == {<<"1", "3">>, <<"2", "3">>}

MonData(item) ==
    {d \in DataFor(item) :
        /\ ~d.nil
        /\ Len(d.pairs) = Len(StoreKeys(item))
        /\ \A i \in 1..Len(d.pairs) :
              d.pairs[i].ModifyIndex = 1 /\ d.pairs[i].Value # "9"}

\* The indices an item can have in the item lists of the model.
PlanIds == 1..2

MonItemLists ==
    {<<NewKeyItemWithPrefix("x", "ns")>>,
     <<NewPrefixItem("cfg"), NewKeyItem("")>>}

MonInit ==
    \E watchers \in {<<PollW, PushW>>, <<PushW, PollW>>}, items \in MonItemLists :
        Unstarted(MonConfig, watchers, items)

MonPollTick ==
    /\ PollTick
    /\ poll'.n <= MonPolls
    /\ poll'.ok => poll'.values \in MonPolled
    /\ UNCHANGED pipeVars

MonNotify(p) ==
    /\ Notify(p)
    /\ lastData'[p] \in MonData(ii[p])

MonNext ==
    \/ MonitorNew
    \/ MonitorGo
    \/ WatchPoll
    \/ WatchPush
    \/ MonPollTick
    \/ WatcherExit /\ UNCHANGED pipeVars
    \/ \E p \in DOMAIN plans : MonNotify(p)
    \/ StopPlans
    \/ DeliverPoll
    \/ \E p \in DOMAIN plans : DeliverPush(p)
    \/ DispatchSet
    \/ DispatchDone
    \/ DispatchExit /\ UNCHANGED pipeVars
    \/ Cancel /\ UNCHANGED pipeVars

MonSpec == MonInit /\ [][MonNext]_vars

\* The scheduling the runtime gives the pipeline. A task that can run does
\* run: Monitor.Monitor goes on to its next statement and applyChange to its
\* next change (weak fairness). The senders blocked on the channel wait in
\* the channel's queue of senders and a receive takes the one that waits
\* longest, so a sender that is ready again and again with the dispatch
\* task in its select is received from (strong fairness per sender).
MonFairSpec ==
    /\ MonSpec
    /\ WF_vars(MonitorGo)
    /\ WF_vars(WatchPoll)
    /\ WF_vars(WatchPush)
    /\ WF_vars(DispatchSet)
    /\ WF_vars(DispatchDone)
    /\ SF_vars(DeliverPoll)
    /\ \A p \in PlanIds : SF_vars(p \in DOMAIN plans /\ DeliverPush(p))

\* The scheduling the runtime gives: a ready channel operation completes, a
\* running applyChange returns, and a select that is ready again and again
\* with a closed ctx.Done() eventually takes that case.
PollFairSpec ==
    /\ PollSpec
    /\ WF_vars(Deliver /\ UNCHANGED pipeVars)
    /\ WF_vars(DispatchApply /\ UNCHANGED pipeVars)
    /\ SF_vars(WatcherExit /\ UNCHANGED pipeVars)
    /\ SF_vars(DispatchExit /\ UNCHANGED pipeVars)

----------------------------------------------------------------------------
\* Helpers of the poll watcher properties.

\* This step is a getValues call whose MGET succeeded / failed.
PollStepOK == poll'.n = poll.n + 1 /\ poll'.ok
PollStepFailed == poll'.n = poll.n + 1 /\ ~poll'.ok

\* The batch a successful poll owes: one change per key whose value is
\* present and differs in digest from the stored one, in key order.
ExpectedBatch(values, h, v) ==
    LET sel == SelectSeq([i \in 1..NKeys |-> i],
                         LAMBDA i : values[i] # Nil /\ Hash(values[i]) # h[i])
    IN  [k \in 1..Len(sel) |->
            NewChange(SourceRedis, Keys[sel[k]], values[sel[k]], v[sel[k]] + 1)]

\* C6: a successful poll that fetches, for every key, the content of the
\* previous successful poll changes no version counter (and no digest) and
\* sends no batch.
C6_Idempotent ==
    [][(PollStepOK /\ poll'.values = poll'.prev) =>
          /\ versions' = versions
          /\ hashes' = hashes
          /\ batch' = <<>>
          /\ wpc' = "select"]_vars

\* The second of two successful polls with the same content, with a failed
\* poll or none between them, after a change had been emitted.
C6_Witness ==
    /\ poll.ok
    /\ poll.n >= 2
    /\ poll.values = poll.prev
    /\ \E i \in 1..NKeys : poll.values[i] # Nil /\ versions[i] = 1
    /\ batch = <<>>
    /\ wpc = "select"

\* C7: for every key the changes built carry the versions 1, 2, 3, ... in
\* this order, and the key's counter is the number of changes built for it:
\* it moves by one exactly when a change for that key is built.
C7_MonotonicVersions ==
    \A i \in 1..NKeys : emitted[i] = [n \in 1..versions[i] |-> n]

\* One key has had two changes while another has had one.
C7_Witness ==
    \E i, j \in 1..NKeys :
        /\ emitted[i] = <<1, 2>>
        /\ emitted[j] = <<1>>
        /\ versions[i] = 2 /\ versions[j] = 1

\* C8: a successful poll builds exactly the batch of the keys whose value is
\* present and differs from the stored digest, in key order, each with its
\* counter plus one, and sends it exactly if it is not empty; between polls
\* the batch only leaves, whole and once, to the dispatch task.
C8_BatchContent ==
    [][/\ PollStepOK =>
             /\ batch' = ExpectedBatch(poll'.values, hashes, versions)
             /\ wpc' = (IF batch' = <<>> THEN "select" ELSE "send")
       /\ poll' = poll =>
             \/ batch' = batch
             \/ batch # <<>> /\ batch' = <<>> /\ cur' = batch]_vars

\* Scenario A after tick 2: a="1", b="2", then b="3".
C8_Witness ==
    /\ poll.n = 2
    /\ poll.prev = <<"1", "2">>
    /\ poll.values = <<"1", "3">>
    /\ batch = <<NewChange(SourceRedis, "b", "3", 2)>>
    /\ wpc = "send"

\* C9: a poll whose MGET fails changes no digest and no counter, builds and
\* sends nothing, and leaves the loop waiting for the next tick.
C9_FailedPollNoEffect ==
    [][PollStepFailed =>
          /\ hashes' = hashes
          /\ versions' = versions
          /\ emitted' = emitted
          /\ batch' = <<>>
          /\ wpc' = "select"]_vars

\* A failed poll after a change had been emitted.
C9_Witness ==
    /\ ~poll.ok
    /\ poll.n >= 2
    /\ \E i \in 1..NKeys : versions[i] >= 1 /\ hashes[i] # ""
    /\ wpc = "select"

\* C10: after the context is cancelled the watcher's task exits in every
\* interleaving with the dispatch task: once the dispatch task has returned,
\* the watcher's task has exited or its "case <-ctx.Done()" can still run.
C10_WatcherCanExit ==
    (cancelled /\ dpc = "done") => (wpc = "done" \/ ENABLED WatcherExit)

\* The same as a progress property, under PollFairSpec.
C10_WatcherExits == cancelled ~> (wpc = "done")

----------------------------------------------------------------------------
\* Helpers of C20.

\* The position of field f in the configuration's field list.
FieldRank(f) == CHOOSE i \in 1..Len(FieldList) : FieldList[i] = f

\* The Set calls of Seed that returned an error, as <<field, position>>.
FailedSets ==
    UNION {{<<f, i>> : i \in {j \in 1..Len(setLog[f]) : setLog[f][j].err}} : f \in Fields}

\* C20: a Field.Set error makes Seed return that error at once. The failed
\* call is the last Set call of the whole Seed call: no field later in the
\* list receives a Set or a lookup, a failure in the per-field loop leaves
\* the recorded flag bindings unparsed and unapplied, the aggregated
\* "not seeded" error is not produced, and the values the earlier Set calls
\* stored are left in place.
C20_SetErrorAborts ==
    \A f \in Fields : \A i \in 1..Len(setLog[f]) :
        setLog[f][i].err =>
            /\ spc = "done"
            /\ result = RetSetErr(setLog[f][i].src)
            /\ FailedSets = {<<f, i>>}
            /\ i = Len(setLog[f])
            /\ \A g \in Fields : fields[g] = Replay(NewField, setLog[g])
            /\ setLog[f][i].src # SourceFlag =>
                  /\ ~parsed
                  /\ \A g \in Fields : FlagCalls(g) = <<>>
                  /\ \A g \in Fields :
                        FieldRank(g) > FieldRank(f) => setLog[g] = <<>> /\ lookups[g] = <<>>
            /\ setLog[f][i].src = SourceFlag =>
                  \A g \in Fields :
                        FieldRank(g) > FieldRank(f) =>
                            \A j \in 1..Len(setLog[g]) : setLog[g][j].src # SourceFlag

\* The second field's seed value is rejected after the first field was
\* seeded and had its flag recorded.
C20_Witness ==
    /\ spc = "done"
    /\ result = RetSetErr(SourceSeed)
    /\ Len(setLog["f1"]) = 1 /\ ~setLog["f1"][1].err
    /\ fields["f1"].value = "DEBUG"
    /\ flagInfos # <<>>
    /\ Len(setLog["f2"]) = 1 /\ setLog["f2"][1].err


----------------------------------------------------------------------------
\* Helpers of the monitor properties.

\* Two fields declare the same key for the same source other than Seed.
DuplicateKey ==
    \E f, g \in Fields : \E s \in (DOMAIN sources[f] \cap DOMAIN sources[g]) \ {SourceSeed} :
        f # g /\ sources[f][s] = sources[g][s]

\* No task of the monitor or of a watcher was started.
NothingStarted ==
    /\ dpc = "idle"
    /\ wpc = "new"
    /\ \A p \in DOMAIN plans : plans[p] = "none"
    /\ stopper = "none"
    /\ mi = 0

\* The table holds exactly the (Source, Key) pairs the fields declare for
\* sources other than Seed, each mapped to its field.
TableIsConfig ==
    /\ \A f \in Fields : \A s \in DOMAIN sources[f] \ {SourceSeed} :
          /\ s \in DOMAIN mp
          /\ sources[f][s] \in DOMAIN mp[s]
          /\ mp[s][sources[f][s]] = f
    /\ \A s \in DOMAIN mp : \A k \in DOMAIN mp[s] :
          /\ s # SourceSeed
          /\ s \in DOMAIN sources[mp[s][k]]
          /\ sources[mp[s][k]][s] = k

\* C11: monitor.New fails when two fields declare the same (Source, Key) for
\* a source other than Seed, and then no task is ever started; when New
\* succeeds the routing table maps every declared non-Seed (Source, Key) to
\* exactly its field and holds nothing else (no Seed entry), and the table
\* is never modified once New has returned.
C11_RoutingTable ==
    /\ [](mpc # "new" /\ DuplicateKey => mpc = "failed")
    /\ [](mpc = "failed" => NothingStarted /\ mp = <<>>)
    /\ [](mpc \in {"built", "watching", "returned"} => ~DuplicateKey /\ TableIsConfig)
    /\ [][mpc # "new" => mp' = mp]_vars

\* New failed for two fields that share a Consul key (and seed literals
\* that are equal as well).
C11_Witness ==
    /\ mpc = "failed"
    /\ ww # <<>>
    /\ sources["f1"] = [s \in {SourceSeed, SourceConsul} |-> "x"]
    /\ sources["f2"] = [s \in {SourceSeed, SourceConsul} |-> "x"]

\* New succeeded for two fields with the same seed literal and the same key
\* under different sources, and both watchers were started.
C11_Built ==
    /\ mpc = "returned"
    /\ mret = RetNil
    /\ sources["f1"] = [s \in {SourceSeed, SourceConsul} |-> "x"]
    /\ sources["f2"] = [s \in {SourceSeed, SourceRedis} |-> "x"]
    /\ mp = [s \in {SourceConsul, SourceRedis} |->
               [k \in {"x"} |-> IF s = SourceConsul THEN "f1" ELSE "f2"]]

\* The Set calls a batch must cause: one per change whose (source, key) a
\* field declares, in batch order.
RECURSIVE ExpectedCalls(_)
ExpectedCalls(cc) ==
    IF cc = <<>> THEN <<>>
    ELSE LET c == Head(cc)
             to == Route(c.source, c.key)
         IN  (IF to = {} THEN <<>>
              ELSE <<[field |-> CHOOSE f \in to : TRUE, value |-> c.value,
                      version |-> c.version]>>)
             \o ExpectedCalls(Tail(cc))

\* The calls applyChange made for the current batch, without their outcome.
CallsMade ==
    [i \in 1..Len(curLog) |->
        [field |-> curLog[i].field, value |-> curLog[i].value,
         version |-> curLog[i].version]]

\* The changes of the current batch applyChange is done with.
Processed == SubSeq(curBatch, 1, Len(curBatch) - Len(cur))

C12_SetFailed ==
    /\ dpc = "apply"
    /\ curLog # <<>>
    /\ fields["f1"].value = "7"
    /\ \E p \in DOMAIN lastData :
          /\ Len(lastData[p].pairs) = 1
          /\ lastData[p].pairs[1].Value = Bad
          /\ plans[p] = "running"

\* A batch whose source is not in the table was dropped whole.
C12_UnknownSource ==
    /\ dpc = "apply"
    /\ cur = <<>>
    /\ Len(curBatch) = 2
    /\ SourceConsul \notin DOMAIN mp
    /\ curLog = <<>>

\* No task of the watcher was started / its Watch has been called.
NotStarted(w) ==
    IF w = PollW THEN wpc = "new"
    ELSE pp = <<>> /\ stopper = "none" /\ \A p \in DOMAIN plans : plans[p] = "none"
WatchCalled(k) == mi > k \/ mret = RetWatchErr(k)

\* C13: Monitor.Monitor starts the dispatch task before any watcher and
\* calls Watch on the watchers one after the other in registration order. A
\* watcher is not started before its Watch call. When the k-th Watch
\* returns an error Monitor returns it: the watchers after k are never
\* started, the watchers before k are not stopped, and until the context is
\* cancelled the dispatch task keeps running and receives what they send.
C13_StartOrder ==
    /\ (dpc = "idle") => \A k \in 1..Len(ww) : NotStarted(ww[k])
    /\ \A k \in 1..Len(ww) :
          /\ ~WatchCalled(k) => NotStarted(ww[k])
          /\ WatchCalled(k) => \A j \in 1..(k - 1) : mi > j
          /\ mret = RetWatchErr(k) =>
                /\ mpc = "returned"
                /\ \A j \in (k + 1)..Len(ww) : NotStarted(ww[j])
                /\ \A j \in 1..(k - 1) :
                      ww[j] = PollW => (wpc \in {"select", "send"} \/ cancelled)
                /\ ~cancelled => dpc \in {"select", "apply"}
                /\ (wpc = "send" /\ dpc = "select") => ENABLED DeliverPoll
    /\ mret = RetNil => \A k \in 1..Len(ww) : WatchCalled(k)

\* The push watcher, registered second, failed to build its second plan;
\* the poll watcher's first batch is being applied while its second waits
\* in the send.
C13_Witness ==
    /\ ww = <<PollW, PushW>>
    /\ mret = RetWatchErr(2)
    /\ ~cancelled
    /\ plans = <<"running", "none">>
    /\ poll.n = 2
    /\ wpc = "send"
    /\ dpc = "apply"
    /\ curBatch # <<>> /\ curBatch[1].source = SourceRedis

\* The push watcher, registered first, failed: the poll watcher was never
\* started.
C13_LaterNotStarted ==
    /\ ww = <<PushW, PollW>>
    /\ mret = RetWatchErr(1)
    /\ wpc = "new"
    /\ plans = <<"send", "none">>

----------------------------------------------------------------------------
\* Helpers of the push watcher properties.

\* This step is a notification of item p's plan.
Notified(p) == notifs' = notifs + 1 /\ lastPlan' = p

\* One change per pair, in the order of the pairs, keyed by the pair's key.
ChangesOf(pairs) ==
    [i \in 1..Len(pairs) |->
        NewChange(SourceConsul, pairs[i].Key, pairs[i].Value, pairs[i].ModifyIndex)]

\* A send of item p's handler, once begun, holds its batch until the
\* dispatch task receives exactly that batch.
SentOnce(p) ==
    plans[p] = "send" =>
        \/ plans'[p] = "send" /\ pbatch'[p] = pbatch[p]
        \/ plans'[p] = "running" /\ cur' = pbatch[p] /\ pbatch'[p] = <<>>

\* C14: the prefix handler sends, for every notification that is not nil,
\* exactly one batch with one change per delivered pair (source Consul, the
\* pair's key, value and modify index), whatever the previous notification
\* held: pairs that did not change are sent again.
C14_PrefixBatch ==
    [][\A p \in DOMAIN ii :
          ii[p].tp = "keyprefix" =>
              /\ (Notified(p) /\ ~lastData'[p].nil) =>
                    /\ plans'[p] = "send"
                    /\ pbatch'[p] = ChangesOf(lastData'[p].pairs)
              /\ SentOnce(p)]_vars

\* Scenario B: after cfg/x="1", cfg/y="2" was applied (f2 holds "2"), the
\* notification for cfg/x="9" carries both keys.
C14_Witness ==
    \E p \in DOMAIN ii :
        /\ ii[p] = NewPrefixItem("cfg")
        /\ notifs = 2
        /\ fields["f2"] = [value |-> "2", version |-> 1]
        /\ lastData[p] = Data(<<KVPair("cfg/x", "9", 2), KVPair("cfg/y", "2", 1)>>)
        /\ plans[p] = "send"
        /\ pbatch[p] = <<NewChange(SourceConsul, "cfg/x", "9", 2),
                         NewChange(SourceConsul, "cfg/y", "2", 1)>>

\* C15: the single-key handler sends, for every notification that is not
\* nil, exactly one batch holding exactly one change: source Consul, the
\* item's configured key (not the watched path with the namespace prefix),
\* the pair's value, and the pair's modify index as version. A nil
\* notification sends nothing.
C15_KeyBatch ==
    [][\A p \in DOMAIN ii :
          ii[p].tp = "key" =>
              /\ Notified(p) =>
                    IF lastData'[p].nil
                    THEN plans'[p] = "running" /\ pbatch'[p] = <<>>
                    ELSE LET pair == lastData'[p].pairs[1]
                         IN  /\ plans'[p] = "send"
                             /\ pbatch'[p] = <<NewChange(SourceConsul, ii[p].key,
                                                         pair.Value, pair.ModifyIndex)>>
              /\ SentOnce(p)]_vars

\* The pair of the watched path ns/x was sent as a change of key x, after a
\* nil notification sent nothing.
C15_Witness ==
    \E p \in DOMAIN ii :
        /\ ii[p] = NewKeyItemWithPrefix("x", "ns")
        /\ notifs = 2
        /\ dpc = "select" /\ curBatch = <<>>
        /\ lastData[p] = Data(<<KVPair("ns/x", "7", 2)>>)
        /\ plans[p] = "send"
        /\ pbatch[p] = <<NewChange(SourceConsul, "x", "7", 2)>>
        /\ \A q \in DOMAIN ii : q # p => lastData[q] = NilData /\ plans[q] = "running"

\* C16: once Watch has started plans, cancelling the context leads to a
\* Stop() on every started plan, also when Watch returned an error because a
\* later item's plan could not be built: after the cancellation every
\* started plan has been stopped or the task that stops them can still run.
C16_StartedPlansStopped ==
    (cancelled /\ pp # <<>>) =>
        \/ \A n \in 1..Len(pp) : pp[n] \in stops
        \/ ENABLED StopPlans

\* Watch returned nil, the context was cancelled and every plan was stopped.
C16_AllStopped ==
    /\ cancelled
    /\ mret = RetNil
    /\ Len(pp) = 2
    /\ stops = {1, 2}

----------------------------------------------------------------------------
\* Helpers of the pipeline properties.

\* The senders on the shared channel: the poll watcher's task and the
\* handler of every plan.
Senders == {0} \cup DOMAIN plans
Sending(s) == IF s = 0 THEN wpc = "send" ELSE plans[s] = "send"

\* This step completes the send of sender s.
SendDone(s) ==
    IF s = 0 THEN wpc = "send" /\ wpc' # "send"
    ELSE plans[s] = "send" /\ plans'[s] # "send"

\* C17: batches are applied one at a time and the dispatch task is the only
\* writer of the fields while the monitor runs. A send completes only when
\* the dispatch task is in its select with every change of the previous
\* batch handled, and makes the sent batch the current one; while a batch is
\* being applied no other batch is accepted; a Field.Set call is made only
\* by the step of applyChange that handles the next change of the current
\* batch.
C17_OneBatchAtATime ==
    [][/\ \A s \in Senders :
             SendDone(s) =>
                 /\ dpc = "select"
                 /\ cur = <<>>
                 /\ CallsMade = ExpectedCalls(curBatch)
                 /\ dpc' = "apply"
                 /\ curBatch' = (IF s = 0 THEN batch ELSE pbatch[s])
                 /\ cur' = curBatch'
                 /\ curLog' = <<>>
       /\ dpc = "apply" => curBatch' = curBatch
       /\ (fields' # fields \/ Len(curLog') > Len(curLog)) =>
             /\ dpc = "apply"
             /\ cur # <<>>
             /\ cur' = Tail(cur)
             /\ \/ curLog' = curLog
                \/ /\ Len(curLog') = Len(curLog) + 1
                   /\ SubSeq(curLog', 1, Len(curLog)) = curLog
       /\ setLog' = setLog]_vars

\* The first change of a two-change batch of the poll watcher has been Set
\* while the poll watcher and a plan handler both wait in their send.
C17_Witness ==
    /\ dpc = "apply"
    /\ Len(curBatch) = 2
    /\ Len(cur) = 1
    /\ Len(curLog) = 1
    /\ curBatch[1].source = SourceRedis
    /\ wpc = "send"
    /\ \E p \in DOMAIN plans : plans[p] = "send"

\* C18: a sender waiting in its send makes no progress of its own (the poll
\* watcher does no fetch and changes no digest, version or batch; a plan
\* handles no further notification) until the send completes, and it holds
\* back nobody else: whether the poll watcher can fetch, or a plan can
\* handle a notification, depends on its own state only.
C18_Backpressure ==
    /\ [][/\ (wpc = "send" /\ wpc' = "send") =>
                UNCHANGED <<hashes, versions, batch, poll, emitted>>
          /\ \A p \in DOMAIN plans :
                (plans[p] = "send" /\ plans'[p] = "send") =>
                    pbatch'[p] = pbatch[p] /\ lastData'[p] = lastData[p]]_vars
    /\ []((wpc = "select" /\ poll.n < MonPolls /\ poll.n < MaxPolls)
             => ENABLED MonPollTick)
    /\ [](\A p \in DOMAIN plans :
             (plans[p] = "running" /\ p \notin stops /\ notifs < MaxNotifs)
                 => ENABLED MonNotify(p))

\* A plan handler waits in its send while the dispatch task applies a batch
\* of the poll watcher, which is back in its loop and polls again.
C18_Witness ==
    /\ \E p \in DOMAIN plans : plans[p] = "send"
    /\ dpc = "apply"
    /\ cur # <<>>
    /\ curBatch[1].source = SourceRedis
    /\ wpc = "select"
    /\ poll.n = 1
    /\ ENABLED MonPollTick

\* The poll watcher waits in its send while a plan handles a notification.
C18_PlanRunsOn ==
    /\ wpc = "send"
    /\ dpc = "apply"
    /\ curBatch # <<>> /\ curBatch[1].source = SourceRedis
    /\ \E p \in DOMAIN plans : plans[p] = "running" /\ ENABLED MonNotify(p)

\* Sender s waits in its send, for the senders of every item list.
Blocked(s) == IF s = 0 THEN wpc = "send" ELSE s \in DOMAIN plans /\ plans[s] = "send"

\* C19: while the context is not cancelled no batch is lost and the
\* pipeline does not deadlock. Under the fair scheduling of MonFairSpec a
\* sender waiting in its send is eventually received from (or the context
\* is cancelled first), with several senders competing; a received batch is
\* eventually handled to its end with one Set call per routable change; and
\* the dispatch task has exited only if the context was cancelled.
C19_NoBatchLost ==
    /\ \A s \in {0} \cup PlanIds :
          (Blocked(s) /\ ~cancelled) ~> (~Blocked(s) \/ cancelled)
    /\ (dpc = "apply") ~> (dpc = "select" /\ cur = <<>>
                             /\ CallsMade = ExpectedCalls(curBatch))
    /\ [](dpc = "done" => cancelled)

\* Without cancellation both polls and a notification went through: the
\* poll watcher's second batch was Set on f1 and nobody is left sending.
C19_Witness ==
    /\ ~cancelled
    /\ poll.n = 2
    /\ notifs >= 1
    /\ \A s \in {0} \cup PlanIds : ~Blocked(s)
    /\ dpc = "select"
    /\ fields["f1"] = [value |-> "2", version |-> 2]

============================================================================
